---- MODULE Spec2Model ----
(***************************************************************************)
(* A model of the Raft engine of raft-cluster (src/raft-cluster/src/raft). *)
(*                                                                         *)
(* Every node is a RaftNode record guarded by one mutex; an action is one  *)
(* critical section of the code (one `node.lock().await` block) or one     *)
(* purely local computation between two of them.  `task[n]` is the         *)
(* position of node n's main loop (run_main_loop), which runs one election *)
(* or one heartbeat round at a time; inbound RPC handlers run concurrently *)
(* with it.  `prop[n]` is the position of the propose_config call a client *)
(* has made on node n, if any.                                             *)
(*                                                                         *)
(* Three specifications share the definitions:                             *)
(*   Spec     three engines wired to each other: every request a node      *)
(*            handles was built by another node's code;                    *)
(*   SpecRpc  one engine ("n1") behind its gRPC service: inbound           *)
(*            RequestVote / AppendEntries requests and the replies to the  *)
(*            RequestVote calls of its elections are drawn from bounded    *)
(*            sets;                                                        *)
(*   SpecPropose  the same engine with a client calling propose_config;    *)
(*            the peers answer the calls of the replication.               *)
(***************************************************************************)
EXTENDS Integers, Sequences, FiniteSets, TLC

VARIABLES node, task, prop, step, elected, elections

vars == <<node, task, prop, step, elected, elections>>

\* ------------------------------------------------------------------ bounds

\* Highest term a node of the cluster may reach by starting elections.
MaxTerm == 4

\* Most elections started in one run of the cluster.
MaxElections == 4

\* Highest term in a message of the environment of SpecRpc, and the highest
\* term its node reaches by starting elections.
MaxRpcTerm == 2

\* Highest term of a log entry, prev_log_term and last_log_term the
\* environment sends.
MaxEntryTerm == 2

\* Highest prev_log_index / last_log_index the environment sends.
MaxIndex == 2

\* Highest leader_commit the environment sends.
MaxCommit == 2

\* Most entries in one AppendEntries request of the environment.
MaxEntries == 2

\* Most entries a log may hold (append_log_entries pushes every entry of a
\* request, so the length of a log is not bounded by MaxIndex).
MaxLogLen == 3

\* Highest term a node of SpecSmall reaches by starting elections.
MaxSmallTerm == 3

\* Highest next_index of SpecConflict and highest conflict_index passed to
\* handle_log_conflict.
MaxNextIndex == 5
MaxConflictIndex == 5

\* ------------------------------------------------------------- the cluster

\* The three-node cluster of create_test_engine: "test-node", "peer1", "peer2".
Nodes == {"n1", "n2", "n3"}

\* RaftNode.peers: the other nodes, in the order of the Vec.
PeerList(n) ==
    IF n = "n1" THEN <<"n2", "n3">>
    ELSE IF n = "n2" THEN <<"n1", "n3">>
    ELSE IF n = "n3" THEN <<"n1", "n2">>
    ELSE IF n = "b1" THEN <<"b2">>      \* the two-node cluster b1, b2
    ELSE IF n = "b2" THEN <<"b1">>
    ELSE <<>>                           \* the one-node cluster a1

SeqToSet(s) == {s[i] : i \in 1..Len(s)}

Peers(n) == SeqToSet(PeerList(n))

\* Option::None for voted_for / leader_id and for an empty in-flight slot.
None == "none"

\* current_term of a freshly built node (create_test_engine).
InitTerm == 1

Min(a, b) == IF a < b THEN a ELSE b

\* ----------------------------------------------------------------- RaftLog

\* A LogEntry, reduced to the two fields the engine reads.
Entry(i, t) == [index |-> i, term |-> t]

last_log_index(l) == IF l = <<>> THEN 0 ELSE l[Len(l)].index

last_log_term(l) == IF l = <<>> THEN 0 ELSE l[Len(l)].term

\* Position of the first entry whose index field is i (iter().find), 0 if none.
FirstPos(l, i) ==
    IF \E k \in 1..Len(l) : l[k].index = i
    THEN CHOOSE k \in 1..Len(l) :
            /\ l[k].index = i
            /\ \A j \in 1..(k - 1) : l[j].index # i
    ELSE 0

\* get_entry_at(i).is_some()
has_entry_at(l, i) == FirstPos(l, i) # 0

\* get_entry_at(i).unwrap()
get_entry_at(l, i) == l[FirstPos(l, i)]

\* get_term_at(i).is_some(): index 0 has term 0 by convention.
has_term_at(l, i) == i = 0 \/ has_entry_at(l, i)

\* get_term_at(i).unwrap()
get_term_at(l, i) == IF i = 0 THEN 0 ELSE get_entry_at(l, i).term

get_entries_from(l, start) == SelectSeq(l, LAMBDA e : e.index >= start)

truncate_from(l, start) == SelectSeq(l, LAMBDA e : e.index < start)

append_entry(l, e) == Append(l, e)

\* ---------------------------------------------------------------- RaftNode

\* The node built by create_test_engine / create_test_node.  The two Instant
\* fields are not part of the record: time is not modelled, an election
\* timeout may elapse at any moment, and every operation below says with
\* its result whether it assigned election_timeout (timer_reset).
NewNode(n) ==
    [ node_id          |-> n,
      current_term     |-> InitTerm,
      voted_for        |-> None,
      log              |-> <<>>,       \* RaftLog.entities
      commit_index     |-> 0,          \* RaftLog.commit_index
      last_applied     |-> 0,
      role             |-> "Follower",
      leader_id        |-> None,
      next_index       |-> [p \in {} |-> 0],
      match_index      |-> [p \in {} |-> 0],
      state_machine    |-> [k \in {"test_key"} |-> "test_value"] ]

\* ------------------------------------------------- RequestVote (receiver)

\* RaftNode::is_log_up_to_date of node.rs, which the engine does not call:
\* index and term compared separately.
is_log_up_to_date(nd, req) ==
    /\ req.last_log_index >= last_log_index(nd.log)
    /\ req.last_log_term >= last_log_term(nd.log)

is_candidate_log_up_to_date(nd, req) ==
    IF req.last_log_term > last_log_term(nd.log) THEN TRUE
    ELSE IF req.last_log_term < last_log_term(nd.log) THEN FALSE
    ELSE req.last_log_index >= last_log_index(nd.log)

\* A receiver without the test `req.term >= node.current_term`.
handle_vote_request_any_term(nd, req) ==
    LET n1 == IF req.term > nd.current_term
              THEN [nd EXCEPT !.current_term = req.term,
                              !.voted_for = None,
                              !.role = "Follower",
                              !.leader_id = None]
              ELSE nd
        granted == /\ n1.voted_for = None \/ n1.voted_for = req.candidate_id
                   /\ is_candidate_log_up_to_date(n1, req)
        n2 == IF granted THEN [n1 EXCEPT !.voted_for = req.candidate_id] ELSE n1
    IN [ node        |-> n2,
         timer_reset |-> granted,
         resp        |-> [ term         |-> n2.current_term,
                           vote_granted |-> granted,
                           voter_id     |-> nd.node_id ] ]

\* handle_vote_request: the node after the call and the VoteResponse.
handle_vote_request(nd, req) ==
    LET n1 == IF req.term > nd.current_term
              THEN [nd EXCEPT !.current_term = req.term,
                              !.voted_for = None,
                              !.role = "Follower",
                              !.leader_id = None]
              ELSE nd
        can_vote == n1.voted_for = None \/ n1.voted_for = req.candidate_id
        granted == /\ req.term >= n1.current_term
                   /\ can_vote
                   /\ is_candidate_log_up_to_date(n1, req)
        n2 == IF granted THEN [n1 EXCEPT !.voted_for = req.candidate_id] ELSE n1
    IN [ node        |-> n2,
         timer_reset |-> granted,
         resp        |-> [ term         |-> n2.current_term,
                           vote_granted |-> granted,
                           voter_id     |-> nd.node_id ] ]

\* ----------------------------------------------- AppendEntries (receiver)

check_log_consistency(nd, req) ==
    IF req.prev_log_index = 0 THEN TRUE
    ELSE IF req.prev_log_index > last_log_index(nd.log) THEN FALSE
    ELSE IF has_term_at(nd.log, req.prev_log_index)
         THEN get_term_at(nd.log, req.prev_log_index) = req.prev_log_term
         ELSE FALSE

\* The first loop of append_log_entries: the index from which the log is
\* truncated, 0 when no entry of the request conflicts.
FirstConflict(l, req) ==
    LET start_index == req.prev_log_index + 1
        conflicts == { i \in 1..Len(req.entries) :
                         /\ has_entry_at(l, start_index + (i - 1))
                         /\ get_entry_at(l, start_index + (i - 1)).term
                                # req.entries[i].term }
    IN IF conflicts = {} THEN 0
       ELSE start_index + ((CHOOSE i \in conflicts : \A j \in conflicts : i <= j) - 1)

\* append_log_entries: truncate at the first conflict, then push every
\* entry of the request.
append_log_entries(l, req) ==
    LET c == FirstConflict(l, req)
        kept == IF c = 0 THEN l ELSE truncate_from(l, c)
    IN kept \o req.entries

find_conflict_index(nd, req) ==
    IF req.prev_log_index > last_log_index(nd.log)
    THEN last_log_index(nd.log)
    ELSE req.prev_log_index

\* A receiver without step 2 of handle_append_entries: on a request of its
\* own term it keeps its role and its leader_id.
handle_append_entries_keep_role(nd, req) ==
    IF req.term < nd.current_term
    THEN [ node        |-> nd,
           timer_reset |-> FALSE,
           resp        |-> [ term |-> nd.current_term, success |-> FALSE,
                             follower_id |-> nd.node_id, conflict_index |-> 0 ] ]
    ELSE
    LET n2 == IF req.term > nd.current_term
              THEN [nd EXCEPT !.current_term = req.term,
                              !.voted_for = None,
                              !.role = "Follower",
                              !.leader_id = req.leader_id]
              ELSE nd
        ok == check_log_consistency(n2, req)
        l3 == IF req.entries # <<>> THEN append_log_entries(n2.log, req) ELSE n2.log
        c3 == IF req.leader_commit > n2.commit_index
              THEN Min(req.leader_commit, last_log_index(l3))
              ELSE n2.commit_index
        n3 == IF ok THEN [n2 EXCEPT !.log = l3, !.commit_index = c3] ELSE n2
    IN [ node        |-> n3,
         timer_reset |-> ok,
         resp        |-> [ term           |-> n3.current_term,
                           success        |-> ok,
                           follower_id    |-> nd.node_id,
                           conflict_index |-> IF ok THEN 0
                                              ELSE find_conflict_index(n2, req) ] ]

\* handle_append_entries: the node after the call and the
\* AppendEntriesResponse.
handle_append_entries(nd, req) ==
    IF req.term < nd.current_term
    THEN [ node        |-> nd,
           timer_reset |-> FALSE,
           resp        |-> [ term |-> nd.current_term, success |-> FALSE,
                             follower_id |-> nd.node_id, conflict_index |-> 0 ] ]
    ELSE
    LET n1 == IF req.term > nd.current_term
              THEN [nd EXCEPT !.current_term = req.term,
                              !.voted_for = None,
                              !.role = "Follower",
                              !.leader_id = req.leader_id]
              ELSE nd
        n2 == [n1 EXCEPT !.role = "Follower", !.leader_id = req.leader_id]
        ok == check_log_consistency(n2, req)
        l3 == IF req.entries # <<>> THEN append_log_entries(n2.log, req) ELSE n2.log
        c3 == IF req.leader_commit > n2.commit_index
              THEN Min(req.leader_commit, last_log_index(l3))
              ELSE n2.commit_index
        n3 == IF ok THEN [n2 EXCEPT !.log = l3, !.commit_index = c3] ELSE n2
    IN [ node        |-> n3,
         timer_reset |-> ok,
         resp        |-> [ term           |-> n3.current_term,
                           success        |-> ok,
                           follower_id    |-> nd.node_id,
                           conflict_index |-> IF ok THEN 0
                                              ELSE find_conflict_index(n2, req) ] ]

\* RaftClient::send_append_entries: what the caller gets for a reply that
\* arrived (a rejection with conflict_index > 0 becomes LogIndexMismatch).
ClientAppendResult(resp) ==
    IF ~resp.success /\ resp.conflict_index > 0 THEN "LogIndexMismatch" ELSE "Ok"

\* ------------------------------------------------------------------- tasks

Idle == [kind |-> "idle"]

\* The observation of the last step when it was not an inbound RPC.
NoStep == [kind |-> "main"]

NoReply == [peer |-> None]

\* ElectionState.majority_needed
majority_needed(n) == (Len(PeerList(n)) + 1) \div 2 + 1

\* collect_votes returns Lost when every future has been drained.
AfterVote(t) ==
    IF t.pending = {}
    THEN [kind |-> "decided", req |-> t.req, result |-> "Lost", new_term |-> 0]
    ELSE t

\* One iteration of the loop of collect_votes on the reply of `peer`.
collect_votes_step(n, t, peer, resp) ==
    IF resp.term > t.req.term
    THEN [kind |-> "decided", req |-> t.req, result |-> "TermUpdated",
          new_term |-> resp.term]
    ELSE IF resp.vote_granted /\ peer \notin t.votes_received
    THEN IF Cardinality(t.votes_received \cup {peer}) >= majority_needed(n)
         THEN [kind |-> "decided", req |-> t.req, result |-> "Won", new_term |-> 0]
         ELSE AfterVote([t EXCEPT !.votes_received = @ \cup {peer},
                                  !.inflight = NoReply])
    ELSE AfterVote([t EXCEPT !.inflight = NoReply])

\* apply_election_result with a Lost branch that leaves the role as it is.
apply_election_result_lost_keeps_role(nd, t) ==
    IF t.result = "Won"
    THEN [nd EXCEPT !.role = "Leader", !.leader_id = nd.node_id]
    ELSE IF t.result = "Lost"
    THEN nd
    ELSE [nd EXCEPT !.current_term = t.new_term,
                    !.voted_for = None,
                    !.role = "Follower"]

\* The match of LeaderElection::start_election on the result of the election.
apply_election_result(nd, t) ==
    IF t.result = "Won"
    THEN [nd EXCEPT !.role = "Leader", !.leader_id = nd.node_id]
    ELSE IF t.result = "Lost"
    THEN [nd EXCEPT !.role = "Follower"]
    ELSE [nd EXCEPT !.current_term = t.new_term,
                    !.voted_for = None,
                    !.role = "Follower"]

\* RaftEngine::become_follower (it also assigns election_timeout).
become_follower(nd, leader) ==
    [nd EXCEPT !.role = "Follower", !.leader_id = leader, !.voted_for = None]

\* RaftEngine::become_leader, its second critical section; last is the
\* last_log_index read in the first one.
become_leader(nd, last) ==
    [nd EXCEPT !.role = "Leader",
               !.leader_id = nd.node_id,
               !.next_index = [p \in (DOMAIN @) \cup Peers(nd.node_id) |->
                                 IF p \in Peers(nd.node_id) THEN last + 1 ELSE @[p]],
               !.match_index = [p \in (DOMAIN @) \cup Peers(nd.node_id) |->
                                 IF p \in Peers(nd.node_id) THEN 0 ELSE @[p]]]

\* RaftEngine::handle_log_mismatch
handle_log_mismatch(nd, peer) ==
    IF peer \in DOMAIN nd.next_index /\ nd.next_index[peer] > 1
    THEN [nd EXCEPT !.next_index[peer] = @ - 1]
    ELSE nd

\* Every (node, term) in which the node has held the role Leader.
Elected ==
    elected' = elected \cup
        { <<n, node'[n].current_term>> : n \in {m \in Nodes : node'[m].role = "Leader"} }

\* ----------------------------------------------------------------- actions

Init ==
    /\ node = [n \in Nodes |-> NewNode(n)]
    /\ task = [n \in Nodes |-> Idle]
    /\ prop = [n \in Nodes |-> Idle]
    /\ step = NoStep
    /\ elected = {}
    /\ elections = 0

\* start_election with the VoteRequest built before the term is incremented.
start_election_stale_request(n) ==
    LET nd == [node[n] EXCEPT !.current_term = @ + 1,
                              !.voted_for = n,
                              !.role = "Candidate"]
        req == [ term           |-> node[n].current_term,
                 candidate_id   |-> n,
                 last_log_index |-> last_log_index(nd.log),
                 last_log_term  |-> last_log_term(nd.log) ]
    IN /\ node' = [node EXCEPT ![n] = nd]
       /\ task' = [task EXCEPT ![n] =
                     AfterVote([ kind           |-> "collect",
                                 req            |-> req,
                                 pending        |-> Peers(n),
                                 votes_received |-> {n},
                                 inflight       |-> NoReply ])]

\* LeaderElection::start_election, steps 1 and 2: the first critical section
\* and the ElectionState.
start_election(n) ==
    LET nd == [node[n] EXCEPT !.current_term = @ + 1,
                              !.voted_for = n,
                              !.role = "Candidate"]
        req == [ term           |-> nd.current_term,
                 candidate_id   |-> n,
                 last_log_index |-> last_log_index(nd.log),
                 last_log_term  |-> last_log_term(nd.log) ]
    IN /\ node' = [node EXCEPT ![n] = nd]
       /\ task' = [task EXCEPT ![n] =
                     AfterVote([ kind           |-> "collect",
                                 req            |-> req,
                                 pending        |-> Peers(n),
                                 votes_received |-> {n},
                                 inflight       |-> NoReply ])]

\* run_main_loop, Follower arm: the election timeout has elapsed
\* (should_start_election) and the election starts.
StartElection(n) ==
    /\ task[n].kind = "idle"
    /\ node[n].role = "Follower"
    /\ node[n].current_term < MaxTerm
    /\ elections < MaxElections
    /\ elections' = elections + 1
    /\ UNCHANGED prop
    /\ start_election(n)
    /\ step' = NoStep
    /\ Elected

\* The RequestVote of candidate n reaches peer p, which handles it; the
\* reply travels back.  (The client mutex lets one call of n be in flight.)
VoteRpc(n, p) ==
    /\ task[n].kind = "collect"
    /\ task[n].inflight = NoReply
    /\ p \in task[n].pending
    /\ LET h == handle_vote_request(node[p], task[n].req)
       IN /\ node' = [node EXCEPT ![p] = h.node]
          /\ task' = [task EXCEPT ![n].pending = @ \ {p},
                                  ![n].inflight = [peer |-> p, resp |-> h.resp]]
    /\ step' = NoStep
    /\ UNCHANGED <<prop, elections>>
    /\ Elected

\* The RequestVote of candidate n to peer p fails (Err arm of collect_votes).
VoteRpcError(n, p) ==
    /\ task[n].kind = "collect"
    /\ task[n].inflight = NoReply
    /\ p \in task[n].pending
    /\ task' = [task EXCEPT ![n] = AfterVote([task[n] EXCEPT !.pending = @ \ {p}])]
    /\ step' = NoStep
    /\ UNCHANGED <<prop, elections>>
    /\ UNCHANGED <<node, elected>>

\* collect_votes takes the reply that arrived.
ProcessVoteResponse(n) ==
    /\ task[n].kind = "collect"
    /\ task[n].inflight # NoReply
    /\ task' = [task EXCEPT ![n] =
                  collect_votes_step(n, task[n], task[n].inflight.peer,
                                     task[n].inflight.resp)]
    /\ step' = NoStep
    /\ UNCHANGED <<prop, elections>>
    /\ UNCHANGED <<node, elected>>

\* LeaderElection::start_election, step 4 (its critical section).
election_apply_result(n) ==
    /\ task[n].kind = "decided"
    /\ node' = [node EXCEPT ![n] = apply_election_result(node[n], task[n])]
    /\ task' = [task EXCEPT ![n].kind = "engine"]

ElectionApplyResult(n) ==
    /\ election_apply_result(n)
    /\ step' = NoStep
    /\ UNCHANGED <<prop, elections>>
    /\ Elected

\* RaftEngine::start_election, the match on the result: become_follower, or
\* the first critical section of become_leader.
engine_election_result(n) ==
    /\ task[n].kind = "engine"
    /\ IF task[n].result = "Won"
       THEN /\ task' = [task EXCEPT ![n] =
                          [kind |-> "become_leader",
                           last_log_index |-> last_log_index(node[n].log)]]
            /\ UNCHANGED node
       ELSE /\ node' = [node EXCEPT ![n] = become_follower(node[n], None)]
            /\ task' = [task EXCEPT ![n] = Idle]

EngineElectionResult(n) ==
    /\ engine_election_result(n)
    /\ step' = NoStep
    /\ UNCHANGED <<prop, elections>>
    /\ Elected

\* RaftEngine::become_leader, second critical section.
become_leader_apply(n) ==
    /\ task[n].kind = "become_leader"
    /\ node' = [node EXCEPT ![n] = become_leader(node[n], task[n].last_log_index)]
    /\ task' = [task EXCEPT ![n] = Idle]

BecomeLeader(n) ==
    /\ become_leader_apply(n)
    /\ step' = NoStep
    /\ UNCHANGED <<prop, elections>>
    /\ Elected

\* run_main_loop, Leader arm: send_heartbeats reads the node.
SendHeartbeats(n) ==
    /\ task[n].kind = "idle"
    /\ node[n].role = "Leader"
    /\ task' = [task EXCEPT ![n] =
                  [ kind     |-> "heartbeat",
                    req      |-> [ term           |-> node[n].current_term,
                                   leader_id      |-> n,
                                   prev_log_index |-> last_log_index(node[n].log),
                                   prev_log_term  |-> last_log_term(node[n].log),
                                   entries        |-> <<>>,
                                   leader_commit  |-> node[n].commit_index ],
                    pending  |-> PeerList(n),
                    inflight |-> NoReply ]]
    /\ step' = NoStep
    /\ UNCHANGED <<prop, elections>>
    /\ UNCHANGED <<node, elected>>

AfterHeartbeat(t) == IF t.pending = <<>> /\ t.inflight = NoReply THEN Idle ELSE t

\* The heartbeat of leader n reaches the next peer, which handles it.
HeartbeatRpc(n) ==
    /\ task[n].kind = "heartbeat"
    /\ task[n].inflight = NoReply
    /\ task[n].pending # <<>>
    /\ LET p == Head(task[n].pending)
           h == handle_append_entries(node[p], task[n].req)
       IN /\ node' = [node EXCEPT ![p] = h.node]
          /\ task' = [task EXCEPT ![n].pending = Tail(@),
                                  ![n].inflight = [peer |-> p, resp |-> h.resp]]
    /\ step' = NoStep
    /\ UNCHANGED <<prop, elections>>
    /\ Elected

\* The heartbeat of leader n to the next peer fails (ConnectionFailed,
\* RetryLimitExceeded, ...): the peer is noted in failed_nodes.
HeartbeatRpcError(n) ==
    /\ task[n].kind = "heartbeat"
    /\ task[n].inflight = NoReply
    /\ task[n].pending # <<>>
    /\ task' = [task EXCEPT ![n] = AfterHeartbeat([task[n] EXCEPT !.pending = Tail(@)])]
    /\ step' = NoStep
    /\ UNCHANGED <<prop, elections>>
    /\ UNCHANGED <<node, elected>>

\* send_heartbeats, the match on the result of one call: Ok(_) counts the
\* heartbeat as delivered, LogIndexMismatch calls handle_log_mismatch.
heartbeat_result(nd, peer, resp) ==
    IF ClientAppendResult(resp) = "LogIndexMismatch"
    THEN handle_log_mismatch(nd, peer)
    ELSE nd

ProcessHeartbeatResponse(n) ==
    /\ task[n].kind = "heartbeat"
    /\ task[n].inflight # NoReply
    /\ node' = [node EXCEPT ![n] =
                  heartbeat_result(node[n], task[n].inflight.peer, task[n].inflight.resp)]
    /\ task' = [task EXCEPT ![n] = AfterHeartbeat([task[n] EXCEPT !.inflight = NoReply])]
    /\ step' = NoStep
    /\ UNCHANGED <<prop, elections>>
    /\ Elected

Next ==
    \/ \E n \in Nodes : StartElection(n)
    \/ \E n \in Nodes : \E p \in Nodes : VoteRpc(n, p)
    \/ \E n \in Nodes : \E p \in Nodes : VoteRpcError(n, p)
    \/ \E n \in Nodes : ProcessVoteResponse(n)
    \/ \E n \in Nodes : ElectionApplyResult(n)
    \/ \E n \in Nodes : EngineElectionResult(n)
    \/ \E n \in Nodes : BecomeLeader(n)
    \/ \E n \in Nodes : SendHeartbeats(n)
    \/ \E n \in Nodes : HeartbeatRpc(n)
    \/ \E n \in Nodes : HeartbeatRpcError(n)
    \/ \E n \in Nodes : ProcessHeartbeatResponse(n)

Spec == Init /\ [][Next]_vars

\* --------------------------------------------- one engine behind its service

\* The engine under observation.
Self == "n1"

\* LogReplication::check_log_consistency on a slice of entries.
LogReplication_check_log_consistency(local_log, prev_log_index, prev_log_term) ==
    IF prev_log_index = 0 THEN TRUE
    ELSE IF has_entry_at(local_log, prev_log_index)
         THEN get_entry_at(local_log, prev_log_index).term = prev_log_term
         ELSE FALSE

\* The entries a leader puts in one request: consecutive indices from
\* prev_log_index + 1.
EntriesFrom(prev, terms) == [i \in 1..Len(terms) |-> Entry(prev + i, terms[i])]

TermSeqs == UNION { [1..k -> 1..MaxEntryTerm] : k \in 0..MaxEntries }

VoteRequests ==
    [ term           : 1..MaxRpcTerm,
      candidate_id   : Peers(Self),
      last_log_index : 0..MaxIndex,
      last_log_term  : 0..MaxEntryTerm ]

AppendRequests ==
    { [ term           |-> t,
        leader_id      |-> l,
        prev_log_index |-> pi,
        prev_log_term  |-> pt,
        entries        |-> EntriesFrom(pi, ts),
        leader_commit  |-> lc ] :
      t \in 1..MaxRpcTerm, l \in Peers(Self), pi \in 0..MaxIndex,
      pt \in 0..MaxEntryTerm, ts \in TermSeqs, lc \in 0..MaxCommit }

VoteResponses(p) ==
    [ term : 1..(MaxRpcTerm + 1), vote_granted : BOOLEAN, voter_id : {p} ]

\* What the last step was, for an inbound RPC: the term of the request,
\* the role of the engine when the request arrived and the reply.
Observed(kind, req, h) ==
    [ kind |-> kind, term |-> req.term, role |-> node[Self].role, resp |-> h.resp ]

\* The services taking no engine mutex around propose_config.
engine_never_locked(n) == prop[n].kind \in {}

\* The engine mutex of the services of node n is taken: propose_config of
\* the ConfigService holds the guard of engine.lock() until its statement
\* ends, across RaftEngine::propose_config and the replication it awaits.
\* (The handlers below hold it for one step of the model.)
engine_locked(n) == prop[n].kind \in {"built", "replicating"}

\* RaftGrpcServer::request_vote: the service locks the engine and calls
\* handle_vote_request.
RpcRequestVote(req) ==
    /\ ~engine_locked(Self)
    /\ LET h == handle_vote_request(node[Self], req)
       IN /\ node' = [node EXCEPT ![Self] = h.node]
          /\ step' = Observed("vote", req, h)
    /\ UNCHANGED <<task, prop, elected, elections>>

\* RaftGrpcServer::append_entries: the service locks the engine and calls
\* handle_append_entries.
RpcAppendEntries(req) ==
    /\ ~engine_locked(Self)
    /\ Len(node[Self].log) + Len(req.entries) <= MaxLogLen
    /\ LET h == handle_append_entries(node[Self], req)
       IN /\ node' = [node EXCEPT ![Self] = h.node]
          /\ step' = Observed("append", req, h)
    /\ UNCHANGED <<task, prop, elected, elections>>

\* The election timeout of the engine elapses.
RpcStartElection ==
    /\ task[Self].kind = "idle"
    /\ node[Self].role = "Follower"
    /\ node[Self].current_term < MaxRpcTerm
    /\ start_election(Self)
    /\ step' = NoStep
    /\ UNCHANGED <<prop, elected, elections>>

\* One reply of a peer as collect_votes sees it: a VoteResponse or an error.
VoteReplies(p) ==
    {[peer |-> p, ok |-> FALSE]} \cup
    { [peer |-> p, ok |-> TRUE, resp |-> r] : r \in VoteResponses(p) }

\* The replies of the peers in the order collect_votes takes them.
ReplySeqs(n) ==
    { s \in [1..Len(PeerList(n)) -> UNION {VoteReplies(p) : p \in Peers(n)}] :
        \A i \in 1..Len(s) : \A j \in 1..Len(s) : i # j => s[i].peer # s[j].peer }

\* collect_votes on a sequence of replies: the loop runs until it returns.
RECURSIVE collect_votes(_, _, _)
collect_votes(n, t, replies) ==
    IF t.kind # "collect" THEN t
    ELSE LET r == Head(replies)
             sent == [t EXCEPT !.pending = @ \ {r.peer}]
         IN collect_votes(n,
                          IF r.ok THEN collect_votes_step(n, sent, r.peer, r.resp)
                          ELSE AfterVote(sent),
                          Tail(replies))

\* The engine collects the votes of its election; the peers are the
\* environment.  collect_votes holds no lock and reads no field of the node.
RpcCollectVotes(replies) ==
    /\ task[Self].kind = "collect"
    /\ task' = [task EXCEPT ![Self] = collect_votes(Self, task[Self], replies)]
    /\ step' = NoStep
    /\ UNCHANGED <<node, prop, elected, elections>>

RpcElectionApplyResult ==
    /\ election_apply_result(Self)
    /\ step' = NoStep
    /\ UNCHANGED <<prop, elected, elections>>

RpcEngineElectionResult ==
    /\ engine_election_result(Self)
    /\ step' = NoStep
    /\ UNCHANGED <<prop, elected, elections>>

RpcBecomeLeader ==
    /\ become_leader_apply(Self)
    /\ step' = NoStep
    /\ UNCHANGED <<prop, elected, elections>>

NextRpc ==
    \/ \E req \in VoteRequests : RpcRequestVote(req)
    \/ \E req \in AppendRequests : RpcAppendEntries(req)
    \/ RpcStartElection
    \/ \E replies \in ReplySeqs(Self) : RpcCollectVotes(replies)
    \/ RpcElectionApplyResult
    \/ RpcEngineElectionResult
    \/ RpcBecomeLeader

SpecRpc == Init /\ [][NextRpc]_vars

\* --------------------------------------------------------- propose_config

\* LogReplication::new: max_retry_count.
MaxRetryCount == 3

\* ReplicationTask: required_confirmations.
required_confirmations(n) == Len(PeerList(n)) \div 2 + 1

\* The Result<bool> of propose_config.
OkResult(success) == [kind |-> "Ok", success |-> success]

ErrResult(message) == [kind |-> "Err", message |-> message]

\* A finished call: the entry it built (None if it built none), what it
\* returned and the peers it sent an RPC to.
Done(entry, outcome, sent) ==
    [kind |-> "done", entry |-> entry, outcome |-> outcome, sent |-> sent]

\* ConfigServiceImpl::propose_config: the reply the client gets for an
\* outcome of the engine, on a node whose leader_id is `leader`.
propose_reply(outcome, leader) ==
    IF outcome.kind = "Err"
    THEN [status |-> "internal", message |-> outcome.message]
    ELSE [status |-> "ok", success |-> outcome.success,
          leader_id |-> IF leader = None THEN "" ELSE leader]

\* propose_config returned before it built a LogEntry.
NoEntry == Entry(0, 0)

\* RaftEngine::propose_config, its critical section: the role test and the
\* LogEntry.
propose_config(nd) ==
    IF nd.role # "Leader"
    THEN Done(NoEntry, ErrResult("OnlyLeaderCanPropose"), {})
    ELSE [kind  |-> "built",
          entry |-> Entry(last_log_index(nd.log) + 1, nd.current_term)]

\* LogReplication::replicate_entry, its critical section.
replicate_entry(nd, p) ==
    IF nd.role # "Leader"
    THEN Done(p.entry, ErrResult("OnlyLeaderCanReplicate"), {})
    ELSE IF PeerList(nd.node_id) = <<>>
    THEN Done(p.entry, OkResult(TRUE), {})
    ELSE [kind |-> "replicating", entry |-> p.entry, term |-> nd.current_term]

\* execute_replication with the leader counted among the confirmations.
execute_replication_counting_leader(n, replies) ==
    LET confirmed_nodes == {p \in Peers(n) : replies[p]}
        retry_count == Cardinality(Peers(n) \ confirmed_nodes)
    IN IF Cardinality(confirmed_nodes) + 1 >= required_confirmations(n)
       THEN "Success"
       ELSE IF \E p \in Peers(n) \ confirmed_nodes : retry_count < MaxRetryCount
       THEN "InProgress"
       ELSE "Failed"

\* LogReplication::execute_replication on the results of the calls, which
\* send_append_entries reports as success = true whenever the RPC returned:
\* replies[p] is TRUE when the call to p returned and FALSE when it failed.
\* Every failed call adds one to the retry count of every target node.
execute_replication(n, replies) ==
    LET confirmed_nodes == {p \in Peers(n) : replies[p]}
        retry_count == Cardinality(Peers(n) \ confirmed_nodes)
    IN IF Cardinality(confirmed_nodes) >= required_confirmations(n)
       THEN "Success"
       ELSE IF \E p \in Peers(n) \ confirmed_nodes : retry_count < MaxRetryCount
       THEN "InProgress"
       ELSE "Failed"

\* RaftEngine::propose_config, the match on the result of replicate_entry.
propose_result(result) == OkResult(result = "Success")

\* A client calls propose_config on the engine.
RpcProposeConfig ==
    /\ prop[Self].kind \in {"idle", "done"}
    /\ prop' = [prop EXCEPT ![Self] = propose_config(node[Self])]
    /\ step' = NoStep
    /\ UNCHANGED <<node, task, elected, elections>>

RpcReplicateEntry ==
    /\ prop[Self].kind = "built"
    /\ prop' = [prop EXCEPT ![Self] = replicate_entry(node[Self], prop[Self])]
    /\ step' = NoStep
    /\ UNCHANGED <<node, task, elected, elections>>

\* The calls of the replication return or fail; the peers are the
\* environment.
RpcExecuteReplication(replies) ==
    /\ prop[Self].kind = "replicating"
    /\ prop' = [prop EXCEPT ![Self] =
                  Done(prop[Self].entry,
                       propose_result(execute_replication(Self, replies)),
                       Peers(Self))]
    /\ step' = NoStep
    /\ UNCHANGED <<node, task, elected, elections>>

\* The requests of the peers in SpecPropose: at most one entry, nothing
\* committed.
ProposeAppendRequests ==
    {req \in AppendRequests : Len(req.entries) <= 1 /\ req.leader_commit = 0 /\ req.prev_log_index <= 1}

\* The RequestVote requests of the peers in SpecPropose: a peer may be one
\* term ahead of the terms the engine reaches by itself.
ProposeVoteRequests ==
    [ term           : 1..(MaxRpcTerm + 1),
      candidate_id   : Peers(Self),
      last_log_index : 0..MaxIndex,
      last_log_term  : 0..MaxEntryTerm ]

NextPropose ==
    \/ RpcProposeConfig
    \/ RpcReplicateEntry
    \/ \E replies \in [Peers(Self) -> BOOLEAN] : RpcExecuteReplication(replies)
    \/ \E req \in ProposeVoteRequests : RpcRequestVote(req)
    \/ \E req \in ProposeAppendRequests : RpcAppendEntries(req)
    \/ RpcStartElection
    \/ \E replies \in ReplySeqs(Self) : RpcCollectVotes(replies)
    \/ RpcElectionApplyResult
    \/ RpcEngineElectionResult
    \/ RpcBecomeLeader

SpecPropose == Init /\ [][NextPropose]_vars

\* ------------------------------------------------------------- heartbeats

\* The AppendEntriesResponse a peer may send to the engine.
AppendResponses(p) ==
    [ term           : 1..MaxRpcTerm,
      success        : BOOLEAN,
      follower_id    : {p},
      conflict_index : 0..MaxIndex ]

\* The call of send_heartbeats to the next peer returns the reply resp and
\* send_heartbeats matches on the result of the client.
RpcHeartbeatReply(resp) ==
    /\ task[Self].kind = "heartbeat"
    /\ task[Self].inflight = NoReply
    /\ task[Self].pending # <<>>
    /\ resp.follower_id = Head(task[Self].pending)
    /\ node' = [node EXCEPT ![Self] =
                  heartbeat_result(node[Self], Head(task[Self].pending), resp)]
    /\ task' = [task EXCEPT ![Self] =
                  AfterHeartbeat([task[Self] EXCEPT !.pending = Tail(@)])]
    /\ step' = NoStep
    /\ UNCHANGED <<prop, elected, elections>>

NextLeader ==
    \/ SendHeartbeats(Self)
    \/ \E p \in Peers(Self) : \E resp \in AppendResponses(p) : RpcHeartbeatReply(resp)
    \/ HeartbeatRpcError(Self)
    \/ \E req \in VoteRequests : RpcRequestVote(req)
    \/ \E req \in ProposeAppendRequests : RpcAppendEntries(req)
    \/ RpcStartElection
    \/ \E replies \in ReplySeqs(Self) : RpcCollectVotes(replies)
    \/ RpcElectionApplyResult
    \/ RpcEngineElectionResult
    \/ RpcBecomeLeader

SpecLeader == Init /\ [][NextLeader]_vars

\* ------------------------------------------------------------ catching up

\* The requests of an earlier leader: at most one entry each, which the
\* leader may have committed.
EarlierLeaderRequests ==
    {req \in AppendRequests : Len(req.entries) <= 1 /\ req.prev_log_index <= 1}

\* An AppendEntries request of an earlier leader reaches the engine of n1
\* before the first election timeout of n1 elapses.
EarlierLeaderAppendEntries(req) ==
    /\ elections = 0
    /\ RpcAppendEntries(req)

\* n1 and its peers, every peer reachable: no call fails and n1 alone
\* runs into its election timeout.
NextCatchUp ==
    \/ \E req \in EarlierLeaderRequests : EarlierLeaderAppendEntries(req)
    \/ StartElection(Self)
    \/ \E p \in Peers(Self) : VoteRpc(Self, p)
    \/ ProcessVoteResponse(Self)
    \/ ElectionApplyResult(Self)
    \/ EngineElectionResult(Self)
    \/ BecomeLeader(Self)
    \/ SendHeartbeats(Self)
    \/ HeartbeatRpc(Self)
    \/ ProcessHeartbeatResponse(Self)

\* run_main_loop is a task of its own that is scheduled again and again,
\* and every call to a reachable peer returns.
SpecCatchUp ==
    /\ Init
    /\ [][NextCatchUp]_vars
    /\ WF_vars(StartElection(Self))
    /\ WF_vars(\E p \in Peers(Self) : VoteRpc(Self, p))
    /\ WF_vars(ProcessVoteResponse(Self))
    /\ WF_vars(ElectionApplyResult(Self))
    /\ WF_vars(EngineElectionResult(Self))
    /\ WF_vars(BecomeLeader(Self))
    /\ WF_vars(SendHeartbeats(Self))
    /\ WF_vars(HeartbeatRpc(Self))
    /\ WF_vars(ProcessHeartbeatResponse(Self))

\* ------------------------------------------------------------ RaftClient

\* ClientConfig::default, max_retry_count.
max_retry_count == 3

\* What one try_send_request_vote / try_send_append_entries call can give:
\* a reply (for AppendEntries, one that the client reads as a log index
\* mismatch or not), or one of the errors of RaftClientError.
TryOutcomes(rpc, p) ==
    { [kind |-> "Reply", result |-> "Ok"] }
    \cup (IF rpc = "append_entries"
          THEN { [kind |-> "Reply", result |-> ClientAppendResult(resp)] :
                    resp \in AppendResponses(p) }
          ELSE {})
    \cup { [kind |-> "Err", result |-> e] :
             e \in {"NodeNotFound", "ConnectionFailed", "NetworkError", "RequestTimeout"} }

\* Still in the loop of the client.
Retrying == "retrying"

\* The loop body with the retry limit tested after the increment by >.
send_with_retry_one_more(attempts, outcome) ==
    IF outcome.kind = "Reply"
    THEN [attempts |-> attempts, result |-> outcome.result]
    ELSE IF outcome.result = "ConnectionFailed"
    THEN [attempts |-> attempts, result |-> "ConnectionFailed"]
    ELSE IF outcome.result \in {"NetworkError", "RequestTimeout"}
    THEN IF attempts + 1 > max_retry_count
         THEN [attempts |-> attempts + 1, result |-> "RetryLimitExceeded"]
         ELSE [attempts |-> attempts + 1, result |-> Retrying]
    ELSE [attempts |-> attempts, result |-> outcome.result]

\* RaftClient::send_request_vote and RaftClient::send_append_entries, one
\* turn of the loop: the match on the result of the try_send call.
send_with_retry(attempts, outcome) ==
    IF outcome.kind = "Reply"
    THEN [attempts |-> attempts, result |-> outcome.result]
    ELSE IF outcome.result = "ConnectionFailed"
    THEN [attempts |-> attempts, result |-> "ConnectionFailed"]
    ELSE IF outcome.result \in {"NetworkError", "RequestTimeout"}
    THEN IF attempts + 1 >= max_retry_count
         THEN [attempts |-> attempts + 1, result |-> "RetryLimitExceeded"]
         ELSE [attempts |-> attempts + 1, result |-> Retrying]
    ELSE [attempts |-> attempts, result |-> outcome.result]

\* The engine calls send_request_vote or send_append_entries for peer p.
ClientSend(rpc, p) ==
    /\ task[Self].kind = "idle" \/ (task[Self].kind = "client" /\ task[Self].result # Retrying)
    /\ task' = [task EXCEPT ![Self] =
                  [ kind     |-> "client",
                    rpc      |-> rpc,
                    peer     |-> p,
                    attempts |-> 0,
                    outcomes |-> <<>>,
                    result   |-> Retrying ]]
    /\ step' = NoStep
    /\ UNCHANGED <<node, prop, elected, elections>>

\* One try_send call of the loop ends with the outcome.
ClientTrySend(outcome) ==
    /\ task[Self].kind = "client"
    /\ task[Self].result = Retrying
    /\ outcome \in TryOutcomes(task[Self].rpc, task[Self].peer)
    /\ LET r == send_with_retry(task[Self].attempts, outcome)
       IN task' = [task EXCEPT ![Self].attempts = r.attempts,
                               ![Self].result   = r.result,
                               ![Self].outcomes = Append(@, outcome)]
    /\ step' = NoStep
    /\ UNCHANGED <<node, prop, elected, elections>>

NextClient ==
    \/ \E rpc \in {"request_vote", "append_entries"} : \E p \in Peers(Self) :
          ClientSend(rpc, p)
    \/ \E outcome \in UNION {TryOutcomes(rpc, p) :
                               rpc \in {"request_vote", "append_entries"},
                               p \in Peers(Self)} :
          ClientTrySend(outcome)

SpecClient == Init /\ [][NextClient]_vars

\* -------------------------------------------------- next_index back-off

\* handle_log_conflict jumping to any conflict_index > 0.
handle_log_conflict_jump_forward(next_index, peer_id, conflict_index) ==
    IF peer_id \in DOMAIN next_index
    THEN IF conflict_index > 0
         THEN [next_index EXCEPT ![peer_id] = conflict_index]
         ELSE IF next_index[peer_id] > 1
              THEN [next_index EXCEPT ![peer_id] = @ - 1]
              ELSE next_index
    ELSE next_index

\* LogReplication::handle_log_conflict
handle_log_conflict(next_index, peer_id, conflict_index) ==
    IF peer_id \in DOMAIN next_index
    THEN IF conflict_index > 0 /\ conflict_index < next_index[peer_id]
         THEN [next_index EXCEPT ![peer_id] = conflict_index]
         ELSE IF next_index[peer_id] > 1
              THEN [next_index EXCEPT ![peer_id] = @ - 1]
              ELSE next_index
    ELSE next_index

\* A leader's next_index: every peer at 1 (become_leader on an empty log)
\* or further.
NextIndexMaps == [Peers(Self) -> 1..MaxNextIndex]

InitConflict ==
    /\ \E ni \in NextIndexMaps :
         node = [n \in Nodes |->
                   IF n = Self THEN [NewNode(n) EXCEPT !.next_index = ni]
                   ELSE NewNode(n)]
    /\ task = [n \in Nodes |-> Idle]
    /\ prop = [n \in Nodes |-> Idle]
    /\ step = NoStep
    /\ elected = {}
    /\ elections = 0

\* One call of handle_log_conflict on the next_index of the node.
CallHandleLogConflict(peer_id, conflict_index) ==
    /\ node' = [node EXCEPT ![Self].next_index =
                  handle_log_conflict(@, peer_id, conflict_index)]
    /\ step' = [ kind           |-> "conflict",
                 peer           |-> peer_id,
                 conflict_index |-> conflict_index,
                 before         |-> node[Self].next_index ]
    /\ UNCHANGED <<task, prop, elected, elections>>

\* One call of handle_log_mismatch.
CallHandleLogMismatch(peer_id) ==
    /\ node' = [node EXCEPT ![Self] = handle_log_mismatch(@, peer_id)]
    /\ step' = [ kind           |-> "mismatch",
                 peer           |-> peer_id,
                 conflict_index |-> 0,
                 before         |-> node[Self].next_index ]
    /\ UNCHANGED <<task, prop, elected, elections>>

NextConflict ==
    \/ \E p \in Nodes : \E c \in 0..MaxConflictIndex : CallHandleLogConflict(p, c)
    \/ \E p \in Nodes : CallHandleLogMismatch(p)

SpecConflict == InitConflict /\ [][NextConflict]_vars

\* ----------------------------------------------------------------- restart

\* The observation of a step that restarted the engine.
RestartStep == [kind |-> "restart"]

\* The process of the engine ends and starts again: the RaftNode lives in
\* memory only (Arc<Mutex<RaftNode>>), no operation of the engine stores a
\* field of it, and the new process builds its node as the first one did.
RpcRestart ==
    /\ node' = [node EXCEPT ![Self] = NewNode(Self)]
    /\ task' = [task EXCEPT ![Self] = Idle]
    /\ prop' = [prop EXCEPT ![Self] = Idle]
    /\ step' = RestartStep
    /\ UNCHANGED <<elected, elections>>

NextRestart ==
    \/ RpcRestart
    \/ \E req \in VoteRequests : RpcRequestVote(req)
    \/ \E req \in ProposeAppendRequests : RpcAppendEntries(req)
    \/ RpcStartElection
    \/ \E replies \in ReplySeqs(Self) : RpcCollectVotes(replies)
    \/ RpcElectionApplyResult
    \/ RpcEngineElectionResult
    \/ RpcBecomeLeader

SpecRestart == Init /\ [][NextRestart]_vars

\* ------------------------------------------------------------ read_config

\* The keys a client reads: the one create_test_engine inserts and one that
\* no state machine holds.
Keys == {"test_key", "other_key"}

\* A ReadConfigResponse; leader is the leader the message names, if any.
ReadReply(success, value, version, leader) ==
    [success |-> success, value |-> value, version |-> version, leader |-> leader]

\* RaftEngine::read_config_from_state_machine
read_config_from_state_machine(nd, key) ==
    IF key \in DOMAIN nd.state_machine
    THEN ReadReply(TRUE, nd.state_machine[key], nd.current_term, None)
    ELSE ReadReply(FALSE, "", 0, None)

\* ConfigServiceImpl::read_config
read_config(nd, key, consistent_read) ==
    IF consistent_read /\ nd.role # "Leader"
    THEN ReadReply(FALSE, "", 0, IF nd.leader_id = None THEN "" ELSE nd.leader_id)
    ELSE read_config_from_state_machine(nd, key)

\* ---------------------------------------------------------- small clusters

\* The engines of SpecSmall: a1 has no peer (create_test_node("node1",
\* vec![])), b1 has the one peer b2, which is the environment.
SmallNodes == {"a1", "b1"}

InitSmall ==
    /\ node = [n \in SmallNodes |-> NewNode(n)]
    /\ task = [n \in SmallNodes |-> Idle]
    /\ prop = [n \in SmallNodes |-> Idle]
    /\ step = NoStep
    /\ elected = {}
    /\ elections = 0

\* The election timeout of engine n elapses.
SmallStartElection(n) ==
    /\ task[n].kind = "idle"
    /\ node[n].role = "Follower"
    /\ node[n].current_term < MaxSmallTerm
    /\ start_election(n)
    /\ step' = NoStep
    /\ UNCHANGED <<prop, elected, elections>>

\* Engine n collects the votes of its election.
SmallCollectVotes(n, replies) ==
    /\ task[n].kind = "collect"
    /\ task' = [task EXCEPT ![n] = collect_votes(n, task[n], replies)]
    /\ step' = NoStep
    /\ UNCHANGED <<node, prop, elected, elections>>

SmallElectionApplyResult(n) ==
    /\ election_apply_result(n)
    /\ step' = NoStep
    /\ UNCHANGED <<prop, elected, elections>>

SmallEngineElectionResult(n) ==
    /\ engine_election_result(n)
    /\ step' = NoStep
    /\ UNCHANGED <<prop, elected, elections>>

SmallBecomeLeader(n) ==
    /\ become_leader_apply(n)
    /\ step' = NoStep
    /\ UNCHANGED <<prop, elected, elections>>

\* The peer of engine n asks for its vote.
SmallRequestVote(n, req) ==
    /\ LET h == handle_vote_request(node[n], req)
       IN node' = [node EXCEPT ![n] = h.node]
    /\ step' = NoStep
    /\ UNCHANGED <<task, prop, elected, elections>>

\* The RequestVote requests of the peers of engine n; every log is empty.
SmallVoteRequests(n) ==
    [ term           : 1..MaxSmallTerm,
      candidate_id   : Peers(n),
      last_log_index : {0},
      last_log_term  : {0} ]

\* A client calls propose_config on engine n.
SmallProposeConfig(n) ==
    /\ prop[n].kind \in {"idle", "done"}
    /\ prop' = [prop EXCEPT ![n] = propose_config(node[n])]
    /\ step' = NoStep
    /\ UNCHANGED <<node, task, elected, elections>>

SmallReplicateEntry(n) ==
    /\ prop[n].kind = "built"
    /\ prop' = [prop EXCEPT ![n] = replicate_entry(node[n], prop[n])]
    /\ step' = NoStep
    /\ UNCHANGED <<node, task, elected, elections>>

SmallExecuteReplication(n, replies) ==
    /\ prop[n].kind = "replicating"
    /\ prop' = [prop EXCEPT ![n] =
                  Done(prop[n].entry,
                       propose_result(execute_replication(n, replies)),
                       Peers(n))]
    /\ step' = NoStep
    /\ UNCHANGED <<node, task, elected, elections>>

NextSmall ==
    \E n \in SmallNodes :
        \/ SmallStartElection(n)
        \/ \E replies \in ReplySeqs(n) : SmallCollectVotes(n, replies)
        \/ SmallElectionApplyResult(n)
        \/ SmallEngineElectionResult(n)
        \/ SmallBecomeLeader(n)
        \/ \E req \in SmallVoteRequests(n) : SmallRequestVote(n, req)
        \/ SmallProposeConfig(n)
        \/ SmallReplicateEntry(n)
        \/ \E replies \in [Peers(n) -> BOOLEAN] : SmallExecuteReplication(n, replies)

SpecSmall == InitSmall /\ [][NextSmall]_vars

\* ------------------------------------------- properties of small clusters

\* C21: in a two-node cluster, while the other node is unreachable (every
\* call to it fails), no election ends with the node becoming Leader and no
\* propose_config returns success.
C21_TwoNodesNoProgress ==
    \A n \in SmallNodes :
        Len(PeerList(n)) = 1 =>
            /\ task[n].kind = "collect" =>
                  LET t == collect_votes(n, task[n],
                                         <<[peer |-> PeerList(n)[1], ok |-> FALSE]>>)
                  IN /\ t.result # "Won"
                     /\ apply_election_result(node[n], t).role # "Leader"
            /\ prop[n].kind = "replicating" =>
                  propose_result(execute_replication(n, [p \in Peers(n) |-> FALSE]))
                      # OkResult(TRUE)

\* The proposal of the Leader b1 has returned without success.
C21_Witness ==
    /\ node["b1"].role = "Leader"
    /\ prop["b1"].kind = "done"
    /\ prop["b1"].outcome = OkResult(FALSE)
    /\ prop["b1"].sent = {"b2"}

\* C22: in a cluster with no peers, a node that starts an election becomes
\* Leader of term current_term + 1 with result Won without sending an RPC,
\* and a proposal on that leader succeeds without sending an RPC.
C22_SingleNodeElectsItself ==
    [][\A n \in SmallNodes :
         PeerList(n) = <<>> =>
            /\ (task[n].kind = "idle" /\ task'[n].kind # "idle")
                  => /\ task'[n].kind = "decided"
                     /\ task'[n].result = "Won"
                     /\ node'[n].current_term = node[n].current_term + 1
                     /\ apply_election_result(node'[n], task'[n]).role = "Leader"
            /\ (prop[n].kind = "built" /\ node[n].role = "Leader")
                  => replicate_entry(node[n], prop[n])
                        = Done(prop[n].entry, OkResult(TRUE), {})
    ]_vars

\* The nodes whose grant collect_votes has counted after the first k replies,
\* the candidate included.
Granted(n, replies, k) ==
    {n} \cup { replies[j].peer :
                 j \in {i \in 1..k : replies[i].ok /\ replies[i].resp.vote_granted} }

\* The grants reach floor(N/2) + 1 before a reply of a higher term is taken.
ThresholdReached(n, term, replies) ==
    \E k \in 0..Len(replies) :
        /\ \A j \in 1..k : ~(replies[j].ok /\ replies[j].resp.term > term)
        /\ Cardinality(Granted(n, replies, k)) >= (Len(PeerList(n)) + 1) \div 2 + 1

\* C23: the result of an election of a candidate of an N-node cluster is Won
\* if and only if the distinct nodes that granted their vote, the candidate
\* included, reach floor(N/2) + 1 before a reply of a higher term is taken;
\* failed calls and denials neither count nor end the election.
C23_WonIffMajority ==
    [][\A n \in SmallNodes :
         (task[n].kind = "idle" /\ task'[n].kind # "idle")
           => \A replies \in ReplySeqs(n) :
                 (collect_votes(n, task'[n], replies).result = "Won")
                    <=> ThresholdReached(n, task'[n].req.term, replies)
    ]_vars

\* ------------------------------------------------- properties of elections

\* C26: whenever the role of a node changes to Leader, its role was Candidate
\* immediately before and its current_term is the term of the RequestVote
\* requests of the election whose result makes it Leader.
C26_LeaderFromCandidate ==
    [][\A n \in Nodes :
         (node[n].role # "Leader" /\ node'[n].role = "Leader")
           => /\ node[n].role = "Candidate"
              /\ "req" \in DOMAIN task[n]
              /\ node[n].current_term = task[n].req.term
              /\ node'[n].current_term = task[n].req.term
    ]_vars

\* C27: starting an election increments current_term by exactly 1, sets
\* voted_for to the node and role to Candidate in one step, before a
\* RequestVote is sent; every RequestVote of the election carries the new
\* term, the id of the node and its last_log_index and last_log_term as of
\* that step; only a Follower starts an election.
C27_StartElection ==
    [][\A n \in Nodes :
         /\ (task[n].kind = "idle" /\ task'[n].kind \in {"collect", "decided"})
               => /\ node[n].role = "Follower"
                  /\ node'[n].current_term = node[n].current_term + 1
                  /\ node'[n].voted_for = n
                  /\ node'[n].role = "Candidate"
                  /\ node'[n].log = node[n].log
                  /\ task'[n].req =
                        [ term           |-> node'[n].current_term,
                          candidate_id   |-> n,
                          last_log_index |-> last_log_index(node[n].log),
                          last_log_term  |-> last_log_term(node[n].log) ]
         /\ (task[n].kind = "collect" /\ task'[n].kind \in {"collect", "decided"})
               => task'[n].req = task[n].req
    ]_vars

\* An election of a node that holds a log is collecting votes.
C27_Witness ==
    /\ task[Self].kind = "collect"
    /\ node[Self].role = "Candidate"
    /\ task[Self].req.term = node[Self].current_term
    /\ task[Self].req.last_log_index > 0

\* Every reply has been taken without the grants reaching the majority and
\* without a reply of a higher term.
NoMajorityNoHigherTerm(n, term, replies) ==
    /\ ~ThresholdReached(n, term, replies)
    /\ \A j \in 1..Len(replies) : ~(replies[j].ok /\ replies[j].resp.term > term)

\* The step applies the result Lost of the election of node n to the node.
LostApplied(n) ==
    /\ task[n].kind = "decided"
    /\ task[n].result = "Lost"
    /\ task'[n].kind = "engine"

\* The step is the end of RaftEngine::start_election after the result Lost.
LostFinished(n) ==
    /\ task[n].kind = "engine"
    /\ task[n].result = "Lost"
    /\ task'[n].kind = "idle"

\* C28, as claimed: if every RequestVote reply has been processed without the
\* majority and without a higher term, the result is Lost, the role becomes
\* Follower and current_term is the incremented term of the election; the
\* node is not made Leader by this election.
C28_LostStaysAtElectionTerm ==
    [][\A n \in Nodes :
         /\ (task[n].kind = "idle" /\ task'[n].kind = "collect")
               => \A replies \in ReplySeqs(n) :
                     NoMajorityNoHigherTerm(n, task'[n].req.term, replies)
                       => collect_votes(n, task'[n], replies).result = "Lost"
         /\ LostApplied(n)
               => /\ node'[n].role = "Follower"
                  /\ node'[n].current_term = task[n].req.term
         /\ LostFinished(n)
               => /\ node'[n].role = "Follower"
                  /\ node'[n].current_term = task[n].req.term
    ]_vars

\* C28, amended: ... the result is Lost, the role becomes Follower and the
\* result leaves current_term as it is, at the term of the election or at a
\* higher term a request brought during the election; the node is not made
\* Leader by this election.
C28_LostKeepsTerm ==
    [][\A n \in Nodes :
         /\ (task[n].kind = "idle" /\ task'[n].kind = "collect")
               => \A replies \in ReplySeqs(n) :
                     NoMajorityNoHigherTerm(n, task'[n].req.term, replies)
                       => collect_votes(n, task'[n], replies).result = "Lost"
         /\ LostApplied(n)
               => /\ node'[n].role = "Follower"
                  /\ node'[n].current_term = node[n].current_term
                  /\ node'[n].current_term >= task[n].req.term
         /\ LostFinished(n)
               => /\ node'[n].role = "Follower"
                  /\ node'[n].current_term = node[n].current_term
                  /\ node'[n].current_term >= task[n].req.term
    ]_vars

\* The result Lost of an election has been applied: the node is a Follower
\* of the term of the election.
C28_Witness ==
    /\ task[Self].kind = "engine"
    /\ task[Self].result = "Lost"
    /\ node[Self].role = "Follower"
    /\ node[Self].current_term = task[Self].req.term

\* C29: in every state in which a node is Leader, next_index[p] and
\* match_index[p] are defined for every peer p, and at the moment it becomes
\* Leader next_index[p] = index of its last entry + 1 and match_index[p] = 0.
C29_LeaderStateInitialised ==
    [][\A n \in Nodes :
         node'[n].role = "Leader"
           => /\ Peers(n) \subseteq DOMAIN node'[n].next_index
              /\ Peers(n) \subseteq DOMAIN node'[n].match_index
              /\ node[n].role # "Leader"
                    => \A p \in Peers(n) :
                          /\ node'[n].next_index[p] = last_log_index(node'[n].log) + 1
                          /\ node'[n].match_index[p] = 0
    ]_vars

\* C30: on becoming Leader of term T a node appends a noop entry of term T
\* before anything else, so the log of every Leader holds an entry of its
\* current term.
C30_LeaderHasEntryOfItsTerm ==
    \A n \in Nodes :
        node[n].role = "Leader"
          => \E k \in 1..Len(node[n].log) : node[n].log[k].term = node[n].current_term

\* -------------------------------------------------- properties of restarts

\* C25: a node that restarts comes back as Follower with commit_index = 0 and
\* with the current_term, voted_for and log it had before the restart.
C25_RestartKeepsTermVoteLog ==
    [][step' = RestartStep =>
         /\ node'[Self].role = "Follower"
         /\ node'[Self].commit_index = 0
         /\ node'[Self].current_term = node[Self].current_term
         /\ node'[Self].voted_for = node[Self].voted_for
         /\ node'[Self].log = node[Self].log
    ]_vars

\* ---------------------------------------------------- properties of reads

\* The node has committed an entry of its current term.
CommittedInTerm(nd) ==
    \E k \in 1..Len(nd.log) :
        nd.log[k].term = nd.current_term /\ nd.log[k].index <= nd.commit_index

\* C24: a consistent read returns a value only if the serving node is Leader
\* and has committed at least one entry of its current term; on a Follower
\* or Candidate it returns no value and names the leader the node knows of.
C24_ConsistentRead ==
    \A key \in Keys :
        LET nd == node[Self]
            r  == read_config(nd, key, TRUE)
        IN /\ r.success => (nd.role = "Leader" /\ CommittedInTerm(nd))
           /\ nd.role # "Leader"
                => /\ ~r.success
                   /\ r.value = ""
                   /\ r.leader = (IF nd.leader_id = None THEN "" ELSE nd.leader_id)

\* ------------------------------------------------- properties of proposals

\* The log has an entry of index i and term t.
HasEntry(l, i, t) == \E k \in 1..Len(l) : l[k].index = i /\ l[k].term = t

IsPrefix(a, b) == Len(a) <= Len(b) /\ SubSeq(b, 1, Len(a)) = a

\* C15 (leader append-only): no step a node takes while its role is Leader
\* removes or replaces an entry of its log; entries are removed or replaced
\* only by handle_append_entries, which leaves the node a Follower.
C15_LeaderAppendOnly ==
    [][\A n \in Nodes :
         /\ (node[n].role = "Leader" /\ node'[n].role = "Leader")
               => IsPrefix(node[n].log, node'[n].log)
         /\ ~IsPrefix(node[n].log, node'[n].log)
               => (step'.kind = "append" /\ node'[n].role = "Follower")
    ]_vars

\* A Leader that holds a log has finished a proposal and is still Leader.
C15_Witness ==
    /\ node[Self].role = "Leader"
    /\ node[Self].log # <<>>
    /\ prop[Self].kind = "done"
    /\ prop[Self].outcome.kind = "Ok"

\* A strict majority of the cluster, the node itself included, has
\* match_index >= i.
MajorityMatches(nd, i) ==
    2 * (1 + Cardinality({p \in DOMAIN nd.match_index : nd.match_index[p] >= i}))
        > Len(PeerList(nd.node_id)) + 1

ReturnsSuccess(n) ==
    /\ prop[n].kind = "replicating"
    /\ prop'[n].kind = "done"
    /\ prop'[n].outcome = OkResult(TRUE)

\* C17: propose_config returns success = true only if, at the moment it
\* returns, the proposed entry is in the log of the leader at an index
\* <= last_applied of the leader.
C17_SuccessMeansApplied ==
    [][\A n \in Nodes :
         ReturnsSuccess(n)
           => /\ HasEntry(node'[n].log, prop'[n].entry.index, prop'[n].entry.term)
              /\ prop'[n].entry.index <= node'[n].last_applied
    ]_vars

\* C18: after a propose_config call has returned success, every node that is
\* Leader holds the entry of the proposal at its index with its term.
C18_SuccessStaysInLeaders ==
    \A n \in Nodes :
        (prop[n].kind = "done" /\ prop[n].outcome = OkResult(TRUE))
          => \A m \in Nodes :
                node[m].role = "Leader"
                  => HasEntry(node[m].log, prop[n].entry.index, prop[n].entry.term)

\* The reply tells the client that the node is not the leader and carries the
\* leader the node knows of.
NotLeaderReply(r, hint) ==
    /\ r.status = "not_leader"
    /\ "leader_id" \in DOMAIN r
    /\ r.leader_id = (IF hint = None THEN "" ELSE hint)

\* C19: propose_config on a node whose role is not Leader fails with a
\* not-leader reply that carries the leader_id of the node, sends no RPC and
\* leaves the node (log, commit_index, current_term, voted_for, role)
\* unchanged.
C19_NotLeaderRejected ==
    [][\A n \in Nodes :
         (/\ prop[n].kind \in {"idle", "done"}
          /\ prop'[n] # prop[n]
          /\ node[n].role # "Leader")
           => /\ prop'[n].kind = "done"
              /\ prop'[n].outcome.kind = "Err"
              /\ prop'[n].sent = {}
              /\ node'[n] = node[n]
              /\ NotLeaderReply(propose_reply(prop'[n].outcome, node'[n].leader_id),
                                node'[n].leader_id)
    ]_vars

\* The leader and the peers that acknowledged form a strict majority of the
\* cluster of node n.
StrictMajority(n, replies) ==
    2 * (1 + Cardinality({p \in Peers(n) : replies[p]})) > Len(PeerList(n)) + 1

\* C20: a proposal that a Leader is replicating succeeds as soon as the leader
\* and the peers that acknowledged form a strict majority of the cluster; with
\* three nodes, the acknowledgement of one peer is enough.
C20_MajoritySucceeds ==
    \A n \in Nodes :
        (prop[n].kind = "replicating" /\ node[n].role = "Leader")
          => \A replies \in [Peers(n) -> BOOLEAN] :
                StrictMajority(n, replies)
                  => propose_result(execute_replication(n, replies)) = OkResult(TRUE)

\* --------------------------------------- properties of the service handlers

\* C5: in every state the engine reaches, for every RequestVote request
\* {T, C, Li, Lt} with T >= current_term, handle_vote_request grants the vote
\* if and only if voted_for (after the higher-term update) is none or C and
\* (Lt > lastTerm or (Lt = lastTerm and Li >= lastIndex)); on a grant
\* voted_for is C afterwards; the reply always carries the current_term of the
\* node and its own id.
C5_VoteGrantedIff ==
    \A req \in VoteRequests :
        LET nd == node[Self]
            h == handle_vote_request(nd, req)
            voted == IF req.term > nd.current_term THEN None ELSE nd.voted_for
            lastTerm == last_log_term(nd.log)
            lastIndex == last_log_index(nd.log)
        IN /\ req.term >= nd.current_term =>
                (h.resp.vote_granted <=>
                    /\ voted \in {None, req.candidate_id}
                    /\ \/ req.last_log_term > lastTerm
                       \/ /\ req.last_log_term = lastTerm
                          /\ req.last_log_index >= lastIndex)
           /\ h.resp.vote_granted => h.node.voted_for = req.candidate_id
           /\ h.resp.term = h.node.current_term
           /\ h.resp.voter_id = nd.node_id

\* The engine, holding a log, has just granted its vote to a peer.
C5_Witness ==
    /\ step.kind = "vote"
    /\ step.resp.vote_granted
    /\ node[Self].voted_for \in Peers(Self)
    /\ node[Self].log # <<>>

\* The fields of the node a rejected request must leave alone.
SameNode(a, b) ==
    /\ a.current_term = b.current_term
    /\ a.voted_for = b.voted_for
    /\ a.role = b.role
    /\ a.leader_id = b.leader_id
    /\ a.log = b.log
    /\ a.commit_index = b.commit_index

\* C6: in every state the engine reaches, a RequestVote or AppendEntries
\* request whose term is lower than current_term is rejected (vote_granted
\* false, respectively success false with conflict_index 0), the reply carries
\* current_term, and current_term, voted_for, role, leader_id, log,
\* commit_index and the election timer are left unchanged.
C6_LowerTermRejected ==
    /\ \A req \in VoteRequests :
          req.term < node[Self].current_term =>
             LET h == handle_vote_request(node[Self], req)
             IN /\ ~h.resp.vote_granted
                /\ h.resp.term = node[Self].current_term
                /\ SameNode(h.node, node[Self])
                /\ ~h.timer_reset
    /\ \A req \in AppendRequests :
          req.term < node[Self].current_term =>
             LET h == handle_append_entries(node[Self], req)
             IN /\ ~h.resp.success
                /\ h.resp.conflict_index = 0
                /\ h.resp.term = node[Self].current_term
                /\ SameNode(h.node, node[Self])
                /\ ~h.timer_reset

\* The engine, having voted and holding a log, has just rejected a
\* RequestVote of a lower term.
C6_Witness ==
    /\ step.kind = "vote"
    /\ step.term < step.resp.term
    /\ ~step.resp.vote_granted
    /\ node[Self].voted_for # None
    /\ node[Self].log # <<>>

\* C7: in every state the engine reaches, after handle_append_entries on a
\* request from L with term T >= current_term the node is a Follower of term
\* T with leader_id L, whatever its role was and whether or not the log
\* consistency check passes.
C7_AppendMakesFollower ==
    \A req \in AppendRequests :
        req.term >= node[Self].current_term =>
           LET h == handle_append_entries(node[Self], req)
           IN /\ h.node.role = "Follower"
              /\ h.node.current_term = req.term
              /\ h.node.leader_id = req.leader_id

\* The engine was Leader when an AppendEntries of its own term arrived and
\* failed the consistency check.
C7_Witness ==
    /\ step.kind = "append"
    /\ step.role = "Leader"
    /\ step.term = step.resp.term
    /\ ~step.resp.success
    /\ node[Self].role = "Follower"
    /\ node[Self].leader_id \in Peers(Self)

\* C8: in every state the engine reaches, for every AppendEntries request
\* with term >= current_term the reply has success = true if and only if
\* prev_log_index = 0 or the log has an entry at prev_log_index whose term
\* is prev_log_term, and the check of the engine and
\* LogReplication::check_log_consistency give the same answer.
C8_ConsistencyCheck ==
    \A req \in AppendRequests :
        req.term >= node[Self].current_term =>
           LET h == handle_append_entries(node[Self], req)
           IN /\ h.resp.success <=>
                    \/ req.prev_log_index = 0
                    \/ HasEntry(node[Self].log, req.prev_log_index, req.prev_log_term)
              /\ check_log_consistency(node[Self], req) =
                    LogReplication_check_log_consistency(
                        node[Self].log, req.prev_log_index, req.prev_log_term)

\* The first index of the run of entries that ends at index i and has the
\* term of the entry at i.
FirstOfRun(l, i) ==
    CHOOSE f \in 1..i :
        /\ \A j \in f..i : has_term_at(l, j) /\ get_term_at(l, j) = get_term_at(l, i)
        /\ f > 1 => ~(has_term_at(l, f - 1) /\ get_term_at(l, f - 1) = get_term_at(l, i))

\* C9: in every state the engine reaches, when an AppendEntries request with
\* term >= current_term fails the consistency check, conflict_index is
\* lastIndex + 1 if lastIndex < prev_log_index and otherwise the first index
\* of the run of entries whose term is the term at prev_log_index; it is
\* always > 0.
C9_ConflictIndex ==
    \A req \in AppendRequests :
        LET h == handle_append_entries(node[Self], req)
            lastIndex == last_log_index(node[Self].log)
        IN (req.term >= node[Self].current_term /\ ~h.resp.success) =>
              /\ h.resp.conflict_index > 0
              /\ h.resp.conflict_index =
                    IF lastIndex < req.prev_log_index THEN lastIndex + 1
                    ELSE FirstOfRun(node[Self].log, req.prev_log_index)

\* The entries of the log carry the indices 1, 2, ... in order.
Contiguous(l) == \A k \in 1..Len(l) : l[k].index = k

\* C10: in every state the engine reaches with a log of contiguous indices,
\* for every AppendEntries request that passes the term and consistency
\* checks, after handle_append_entries the log has exactly one entry per
\* index with contiguous indices from 1, the entries at indices
\* <= prev_log_index are unchanged, the entries at prev_log_index + 1 ..
\* prev_log_index + len(E) equal E, and the entries before the first index
\* whose local term differs from the term of the request entry are kept.
C10_AppendKeepsLog ==
    \A req \in AppendRequests :
        LET l == node[Self].log
            h == handle_append_entries(node[Self], req)
            after == h.node.log
            prev == req.prev_log_index
            conflict == FirstConflict(l, req)
        IN (Contiguous(l) /\ req.term >= node[Self].current_term /\ h.resp.success) =>
              /\ Contiguous(after)
              /\ \A k \in 1..prev : k <= Len(after) /\ after[k] = l[k]
              /\ \A i \in 1..Len(req.entries) :
                    prev + i <= Len(after) /\ after[prev + i] = req.entries[i]
              /\ \A k \in 1..Len(l) :
                    (conflict = 0 \/ k < conflict) => k <= Len(after) /\ after[k] = l[k]

\* C11: in every state the engine reaches, delivering the same AppendEntries
\* request twice in a row yields the same response both times, and log,
\* commit_index, current_term, voted_for, role and leader_id after the second
\* delivery equal those after the first.
C11_AppendIdempotent ==
    \A req \in AppendRequests :
        LET first == handle_append_entries(node[Self], req)
            second == handle_append_entries(first.node, req)
        IN /\ second.resp = first.resp
           /\ SameNode(second.node, first.node)

\* C12: in every state the engine reaches, when handle_append_entries
\* succeeds and leader_commit > commit_index the new commit_index is
\* min(leader_commit, prev_log_index + len(entries)); when
\* leader_commit <= commit_index or the request is rejected, commit_index is
\* unchanged.
C12_FollowerCommit ==
    \A req \in AppendRequests :
        LET h == handle_append_entries(node[Self], req)
            before == node[Self].commit_index
        IN h.node.commit_index =
              IF h.resp.success /\ req.leader_commit > before
              THEN Min(req.leader_commit, req.prev_log_index + Len(req.entries))
              ELSE before

\* C13: in every reachable state of every node,
\* last_applied <= commit_index <= index of the last entry of the log.
C13_AppliedCommitLast ==
    \A n \in Nodes :
        /\ node[n].last_applied <= node[n].commit_index
        /\ node[n].commit_index <= last_log_index(node[n].log)

\* ---------------------------------------------- properties of the cluster

\* C1 (election safety): for every term T at most one node ever holds the
\* role Leader while its current_term is T.
C1_ElectionSafety ==
    \A a \in elected : \A b \in elected : a[2] = b[2] => a[1] = b[1]

\* C2: the current_term of a node never decreases, whatever step is taken.
C2_TermNeverDecreases ==
    [][\A n \in Nodes : node'[n].current_term >= node[n].current_term]_vars

\* A node that has just observed the higher term t: it is a Follower of term
\* t and its vote is cleared (or given to `granted_to` by the rest of the
\* handler).
SteppedDown(nd, t, granted_to) ==
    /\ nd.current_term = t
    /\ nd.role = "Follower"
    /\ nd.voted_for \in {None, granted_to}

\* C3: a node that processes a message whose term is greater than its
\* current_term adopts that term, clears voted_for and becomes Follower: on
\* an incoming RequestVote, on an incoming AppendEntries, on the result of
\* an election that saw a higher-term vote reply, and on the reply to a
\* heartbeat.
C3_HigherTermStepsDown ==
    [][\A n \in Nodes :
         /\ \A c \in Nodes :
              (VoteRpc(c, n) /\ task[c].req.term > node[n].current_term)
                  => SteppedDown(node'[n], task[c].req.term, c)
         /\ \A l \in Nodes :
              (HeartbeatRpc(l) /\ Head(task[l].pending) = n
                 /\ task[l].req.term > node[n].current_term)
                  => SteppedDown(node'[n], task[l].req.term, None)
         /\ (ElectionApplyResult(n) /\ task[n].result = "TermUpdated"
               /\ task[n].new_term > node[n].current_term)
                  => SteppedDown(node'[n], task[n].new_term, None)
         /\ (ProcessHeartbeatResponse(n)
               /\ task[n].inflight.resp.term > node[n].current_term)
                  => SteppedDown(node'[n], task[n].inflight.resp.term, None)
    ]_vars

\* C4: within one term a node votes for at most one candidate: once
\* voted_for is set it is neither cleared nor changed while current_term
\* stays the same.
C4_OneVotePerTerm ==
    [][\A n \in Nodes :
         (node[n].voted_for # None /\ node'[n].current_term = node[n].current_term)
             => node'[n].voted_for = node[n].voted_for]_vars

\* C14 (state machine safety): in every reachable state of the cluster, for
\* any two nodes a and b and every index i <= min(a.commit_index,
\* b.commit_index), the entry of a at i equals the entry of b at i.
C14_StateMachineSafety ==
    \A a \in Nodes : \A b \in Nodes :
        \A i \in 1..Min(node[a].commit_index, node[b].commit_index) :
            /\ has_entry_at(node[a].log, i)
            /\ has_entry_at(node[b].log, i)
            /\ get_entry_at(node[a].log, i) = get_entry_at(node[b].log, i)

\* No engine of the cluster ever holds or commits an entry: nothing in the
\* cluster sends a non-empty AppendEntries.
C14_NothingReplicated ==
    \A n \in Nodes : node[n].log = <<>> /\ node[n].commit_index = 0

\* ------------------------------------------------ properties of heartbeats

\* The AppendEntries request the log of nd and next_index[p] call for.
RequestFromNextIndex(nd, p) ==
    [ prev_log_index |-> nd.next_index[p] - 1,
      prev_log_term  |-> IF has_term_at(nd.log, nd.next_index[p] - 1)
                         THEN get_term_at(nd.log, nd.next_index[p] - 1) ELSE 0,
      entries        |-> get_entries_from(nd.log, nd.next_index[p]) ]

\* C31: every AppendEntries request a Leader sends to a peer p, heartbeats
\* included, has prev_log_index = next_index[p] - 1, prev_log_term = the
\* term of the leader's entry at that index, and entries = the leader's log
\* from next_index[p] onward.
C31_RequestFromNextIndex ==
    [][(task[Self].kind = "idle" /\ task'[Self].kind = "heartbeat")
         => \A p \in Peers(Self) :
              /\ p \in DOMAIN node[Self].next_index
              /\ task'[Self].req.prev_log_index
                    = RequestFromNextIndex(node[Self], p).prev_log_index
              /\ task'[Self].req.prev_log_term
                    = RequestFromNextIndex(node[Self], p).prev_log_term
              /\ task'[Self].req.entries
                    = RequestFromNextIndex(node[Self], p).entries]_vars

Max(a, b) == IF a > b THEN a ELSE b

\* C32: whatever AppendEntries response with success = false a Leader gets
\* from the peer p it is calling, it is not counted as an acknowledgement,
\* and next_index[p] becomes max(1, conflict_index) when conflict_index > 0
\* and max(1, next_index[p] - 1) when conflict_index = 0.
C32_BackOffOnRejection ==
    (/\ task[Self].kind = "heartbeat"
     /\ task[Self].pending # <<>>
     /\ node[Self].role = "Leader")
        => LET p == Head(task[Self].pending)
           IN \A resp \in AppendResponses(p) :
                ~resp.success
                  => /\ ClientAppendResult(resp) # "Ok"
                     /\ heartbeat_result(node[Self], p, resp).next_index[p]
                          = IF resp.conflict_index > 0
                            THEN Max(1, resp.conflict_index)
                            ELSE Max(1, node[Self].next_index[p] - 1)

\* C33: handle_log_conflict sets next_index[p] to conflict_index when
\* 0 < conflict_index < next_index[p] and otherwise decrements it unless
\* it is 1; over any sequence of handle_log_conflict and
\* handle_log_mismatch calls next_index[p] never increases and stays
\* >= 1, and the entries of the other peers are unchanged.
C33_NextIndexBacksOff ==
    [][LET ni  == node[Self].next_index
           ni2 == node'[Self].next_index
       IN /\ DOMAIN ni2 = DOMAIN ni
          /\ \A q \in DOMAIN ni : ni2[q] <= ni[q] /\ ni2[q] >= 1
          /\ \A q \in DOMAIN ni : q # step'.peer => ni2[q] = ni[q]
          /\ (step'.kind = "conflict" /\ step'.peer \in DOMAIN ni)
                => ni2[step'.peer] =
                     IF 0 < step'.conflict_index
                           /\ step'.conflict_index < ni[step'.peer]
                     THEN step'.conflict_index
                     ELSE IF ni[step'.peer] = 1 THEN 1 ELSE ni[step'.peer] - 1
      ]_vars

\* A call of handle_log_conflict has jumped back by more than one while
\* another peer stands above 1.
C33_Witness ==
    /\ step.kind = "conflict"
    /\ step.peer \in DOMAIN step.before
    /\ step.conflict_index > 0
    /\ step.conflict_index + 1 < step.before[step.peer]
    /\ node[Self].next_index[step.peer] = step.conflict_index
    /\ \E q \in DOMAIN step.before : q # step.peer /\ node[Self].next_index[q] > 1

C35_CommittedIsApplied ==
    \A n \in Nodes :
        (node[n].commit_index > node[n].last_applied)
            ~> (node[n].last_applied = node[n].commit_index)

\* C36: every propose_config a Leader accepts appends exactly one entry to
\* the log of the leader, at last_log_index + 1 and with current_term,
\* before the replication starts; a proposal accepted after another one of
\* the same term gets a greater index.
C36_ProposalAppendsAtNextIndex ==
    [][(prop[Self].kind # "built" /\ prop'[Self].kind = "built")
         => /\ prop'[Self].entry.index = last_log_index(node[Self].log) + 1
            /\ prop'[Self].entry.term = node[Self].current_term
            /\ node'[Self].log = Append(node[Self].log, prop'[Self].entry)
            /\ (/\ prop[Self].kind = "done"
                /\ prop[Self].entry # NoEntry
                /\ prop[Self].entry.term = prop'[Self].entry.term)
                  => prop'[Self].entry.index > prop[Self].entry.index]_vars

\* C37: a handler resets the election timeout of the node exactly when it
\* accepts an AppendEntries request of a term >= current_term, whether or
\* not the request then passes the log consistency check, and when it
\* grants a RequestVote; a stale request and a denied vote do not reset it.
C37_TimerResetOnAcceptedRequests ==
    /\ \A req \in AppendRequests :
         handle_append_entries(node[Self], req).timer_reset
            <=> req.term >= node[Self].current_term
    /\ \A req \in VoteRequests :
         handle_vote_request(node[Self], req).timer_reset
            <=> handle_vote_request(node[Self], req).resp.vote_granted

\* C38: while the node waits for the replies to an outbound RPC (the
\* RequestVote calls of an election, the replication round of a proposal)
\* its services handle an incoming RequestVote or AppendEntries without
\* waiting: no lock the handlers need is held.
C38_HandlersNeverWait ==
    (task[Self].kind = "collect" \/ prop[Self].kind = "replicating")
        => /\ ENABLED (\E req \in ProposeVoteRequests : RpcRequestVote(req))
           /\ ENABLED (\E req \in ProposeAppendRequests : RpcAppendEntries(req))

\* ---------------------------------------------------- properties of RaftClient

\* C39: send_request_vote and send_append_entries end after at most
\* max_retry_count attempts: a reply ends the call at once with what the
\* reply says, a connection failure or an unknown node ends it at once with
\* that error, and a network error or a timeout is retried until
\* max_retry_count attempts have failed, which ends it with
\* RetryLimitExceeded.
C39_ClientCallTerminates ==
    [][(task[Self].kind = "client" /\ task'[Self].kind = "client"
           /\ Len(task'[Self].outcomes) = Len(task[Self].outcomes) + 1)
         => LET t == task'[Self]
                o == t.outcomes[Len(t.outcomes)]
            IN /\ Len(t.outcomes) <= max_retry_count
               /\ o.kind = "Reply" => t.result = o.result
               /\ (o.kind = "Err" /\ o.result \in {"NodeNotFound", "ConnectionFailed"})
                     => t.result = o.result
               /\ (o.kind = "Err" /\ o.result \in {"NetworkError", "RequestTimeout"})
                     => t.result = IF Len(t.outcomes) = max_retry_count
                                   THEN "RetryLimitExceeded" ELSE Retrying]_vars

\* A call has ended with RetryLimitExceeded after three failed attempts.
C39_Witness ==
    /\ task[Self].kind = "client"
    /\ task[Self].result = "RetryLimitExceeded"
    /\ Len(task[Self].outcomes) = max_retry_count

\* ------------------------------------------------ properties of commit_index

\* C40: in no step does the commit_index of a node decrease, whatever
\* AppendEntries request the node handles, and no entry of its log at an
\* index <= commit_index is removed or replaced.
C40_CommitNeverDecreases ==
    [][\A n \in Nodes :
         /\ node'[n].commit_index >= node[n].commit_index
         /\ \A i \in 1..node[n].commit_index :
              has_entry_at(node[n].log, i)
                 => /\ has_entry_at(node'[n].log, i)
                    /\ get_entry_at(node'[n].log, i) = get_entry_at(node[n].log, i)
      ]_vars

====
